---- MODULE Spec2Model ----
(***************************************************************************)
(* A model of src/ffi/raw/rtc_peerconnection_configure.rs: the conversion  *)
(* of RTCConfiguration / RTCIceServer into their #[repr(C)] raw forms, the *)
(* Box handle made by into_raw / from_raw, and the Drop implementations    *)
(* that give the memory back.  The heap is a sequence of blocks; a pointer *)
(* is the index of its block.                                              *)
(***************************************************************************)
EXTENDS Integers, Sequences, FiniteSets, TLC

VARIABLES input, pc, raw, mem, handle, boxes, fromRaws, borrowed, decoded

vars == <<input, pc, raw, mem, handle, boxes, fromRaws, borrowed, decoded>>

(***************************************************************************)
(* Bounds of the model.                                                    *)
(***************************************************************************)
\* longest urls list of a stand-alone RTCIceServer input (all lists enumerated)
MaxUrls == 2
\* longest ice_servers list built from ServerSamples (all lists enumerated)
MaxServers == 2
\* how many times the caller passes the same pointer to from_raw
MaxFromRaw == 2
\* which undefined operation of one drop may trap (0: none of them does)
MaxFault == 2

(***************************************************************************)
(* Option<T> is a sequence of length 0 (None) or 1 (Some(x)).              *)
(***************************************************************************)
None == <<>>

Some(x) == <<x>>

\* std::ptr::null_mut()
Null == 0

\* the pointer of a Vec that never allocated (NonNull::dangling()), which
\* into_raw_parts returns for an empty Vec
Dangling == -1

\* the width of u8
U8 == 256

\* `x as u8`
AsU8(x) == x % U8

(***************************************************************************)
(* The three #[repr(u8)] enums, in declaration order.                      *)
(***************************************************************************)
BundelPolicy == <<"Balanced", "MaxCompat", "MaxBundle">>

IceTransportPolicy == <<"None", "Relay", "Public", "All">>

RtcpMuxPolicy == <<"Negotiate", "Require">>

\* the explicit discriminant of the first variant of each enum (`= 1`)
FirstDiscriminant == 1

IndexOf(decl, v) == CHOOSE i \in 1..Len(decl) : decl[i] = v

\* faulty variant: the discriminants Rust assigns when `= 1` is left out
DiscriminantFromZero(decl, v) == IndexOf(decl, v) - 1

\* `variant as u8`: the first variant is 1, each next one is one more
Discriminant(decl, v) == FirstDiscriminant + IndexOf(decl, v) - 1

\* faulty variant: an absent enum encoded as the all-ones byte
EnumAsU8Sentinel255(decl, o) == IF o = None THEN U8 - 1 ELSE Discriminant(decl, o[1])

\* `self.field.map(|i| i as u8).unwrap_or(0)`
EnumAsU8(decl, o) == IF o = None THEN 0 ELSE Discriminant(decl, o[1])

\* faulty variant: an absent pool size encoded as 1
PoolSizeDefaultOne(o) == IF o = None THEN 1 ELSE o[1]

\* `self.ice_candidate_pool_size.unwrap_or(0)`
PoolSizeByte(o) == IF o = None THEN 0 ELSE o[1]

(***************************************************************************)
(* Strings are sequences of bytes.                                         *)
(***************************************************************************)
\* "ok"
Ok == <<111, 107>>

\* "b\0n": a string with an interior NUL byte
Bad == <<98, 0, 110>>

StrSamples == {Ok, Bad}

OptStrings == {None} \cup {Some(s) : s \in StrSamples}

HasNul(s) == \E i \in 1..Len(s) : s[i] = 0

\* strlen: the number of bytes before the first NUL
StrLen(bytes) == (CHOOSE i \in 1..Len(bytes) : bytes[i] = 0 /\ \A j \in 1..(i - 1) : bytes[j] # 0) - 1

(***************************************************************************)
(* Heap blocks.  cap is the size the block was allocated with (bytes of a  *)
(* CString, elements of a Vec, 1 for a Box); frees counts its deallocations*)
(***************************************************************************)
CStringBlock(s) == [kind |-> "CString", data |-> s \o <<0>>, cap |-> Len(s) + 1, frees |-> 0]

VecBlock(kind, elems, cap, frees) == [kind |-> kind, data |-> elems, cap |-> cap, frees |-> frees]

\* faulty variant: the capacity of a Vec grown by push (the next power of two, at least 4)
VecCapacityAmortized(n) == IF n <= 4 THEN 4 ELSE IF n <= 8 THEN 8 ELSE 2 * n

\* the capacity of a Vec collected from an iterator of exactly n elements
VecCapacity(n) == n

\* faulty variant: None encoded like an empty Vec
NonePartsDangling == <<Dangling, 0, 0>>

\* `.unwrap_or((std::ptr::null_mut(), 0, 0))`
NoneParts == <<Null, 0, 0>>

\* `CString::new(s).unwrap().into_raw()` of an Option<String>; ok = FALSE: the
\* unwrap panicked (interior NUL) and nothing was allocated.  A panic unwinds
\* (the default panic strategy): owners on the stack are dropped, raw
\* pointers are not.
StringIntoRaw(h, o) ==
    IF o = None THEN [heap |-> h, ok |-> TRUE, ptr |-> Null]
    ELSE IF HasNul(o[1]) THEN [heap |-> h, ok |-> FALSE, ptr |-> Null]
    ELSE [heap |-> Append(h, CStringBlock(o[1])), ok |-> TRUE, ptr |-> Len(h) + 1]

\* the first url with an interior NUL, 0 if there is none
FirstBad(v) == IF \E i \in 1..Len(v) : HasNul(v[i])
               THEN CHOOSE i \in 1..Len(v) : HasNul(v[i]) /\ \A j \in 1..(i - 1) : ~HasNul(v[j])
               ELSE 0

\* urls.map(|v| v.iter().map(CString::new(..).unwrap().into_raw()).collect()
\*               .into_raw_parts()).unwrap_or(null, 0, 0)
\* collect allocates the array for Len(v) pointers, then fills it; a panic in
\* the closure unwinds through the half-built Vec<*const c_char>, whose drop
\* frees the array and none of the strings already made.
UrlsIntoRawParts(h, urls) ==
    IF urls = None THEN [heap |-> h, ok |-> TRUE, parts |-> NoneParts]
    ELSE LET v == urls[1]
             n == Len(v)
             bad == FirstBad(v)
             a == Len(h) + 1
         IN IF n = 0 THEN [heap |-> h, ok |-> TRUE, parts |-> <<Dangling, 0, 0>>]
            ELSE IF bad = 0
            THEN [heap |-> h \o <<VecBlock("Vec<*const c_char>", [i \in 1..n |-> a + i], VecCapacity(n), 0)>>
                             \o [i \in 1..n |-> CStringBlock(v[i])],
                  ok |-> TRUE,
                  parts |-> <<a, n, VecCapacity(n)>>]
            ELSE [heap |-> h \o <<VecBlock("Vec<*const c_char>", [i \in 1..(bad - 1) |-> a + i], VecCapacity(n), 1)>>
                             \o [i \in 1..(bad - 1) |-> CStringBlock(v[i])],
                  ok |-> FALSE,
                  parts |-> NoneParts]

NoServer == [credential |-> Null, urls |-> Null, urls_size |-> 0, urls_capacity |-> 0, username |-> Null]

\* impl Into<RawRTCIceServer> for RTCIceServer: urls first, then the fields of
\* the struct literal in the order written (credential, username).  A panic
\* leaves every pointer made so far behind: raw pointers have no destructor.
\* u, c, n: the outcomes of encoding urls, credential and username, in the
\* order they are evaluated
IceServerLiteral(u, c, n) ==
    IF ~n.ok THEN [heap |-> n.heap, ok |-> FALSE, val |-> NoServer]
    ELSE [heap |-> n.heap, ok |-> TRUE,
          val |-> [credential |-> c.ptr,
                   urls |-> u.parts[1],
                   urls_size |-> AsU8(u.parts[2]),
                   urls_capacity |-> AsU8(u.parts[3]),
                   username |-> n.ptr]]

IceServerAfterCredential(u, c, s) ==
    IF ~c.ok THEN [heap |-> c.heap, ok |-> FALSE, val |-> NoServer]
    ELSE IceServerLiteral(u, c, StringIntoRaw(c.heap, s.username))

IceServerAfterUrls(u, s) ==
    IF ~u.ok THEN [heap |-> u.heap, ok |-> FALSE, val |-> NoServer]
    ELSE IceServerAfterCredential(u, StringIntoRaw(u.heap, s.credential), s)

IceServerInto(h, s) == IceServerAfterUrls(UrlsIntoRawParts(h, s.urls), s)

(***************************************************************************)
(* Memory while destructors run: the heap, the undefined operations met so *)
(* far (ub), those among them that rebuilt an owner from a null pointer    *)
(* (nulls), and whether the process trapped.  An undefined operation (a    *)
(* CString or Vec rebuilt from null, a block freed twice, a block freed    *)
(* with a layout it was not allocated with) either traps or goes on with   *)
(* its usual effect; trapAt numbers the one that traps (0: none).          *)
(***************************************************************************)
NewMem(h) == [heap |-> h, ub |-> 0, nulls |-> 0, crashed |-> FALSE, trapAt |-> 0]

WithFault(m, k) == [m EXCEPT !.trapAt = IF k = 0 THEN 0 ELSE m.ub + k]

Settled(m) == [m EXCEPT !.trapAt = 0]

Undefined(m, isNull) ==
    [m EXCEPT !.ub = @ + 1,
              !.nulls = IF isNull THEN @ + 1 ELSE @,
              !.crashed = (m.ub + 1 = m.trapAt)]

\* deallocation of block p with the layout `size`
Dealloc(m, p, size) ==
    LET b == m.heap[p]
        m1 == [m EXCEPT !.heap[p].frees = @ + 1]
    IN IF b.frees > 0 \/ size # b.cap THEN Undefined(m1, FALSE) ELSE m1

\* `let _ = CString::from_raw(p)`: strlen(p) + 1 bytes are taken back and
\* freed at once.  There is no test for null.
CStringFromRaw(m, p) ==
    IF m.crashed THEN m
    ELSE IF p = Null THEN Undefined(m, TRUE)
    ELSE Dealloc(m, p, StrLen(m.heap[p].data) + 1)

RECURSIVE DropStrings(_, _, _, _)
\* the loop `for url in vec { let _ = CString::from_raw(url) }` over
\* elems[lo..hi], in order (the range is halved to keep the evaluation shallow)
DropStrings(m, elems, lo, hi) ==
    IF lo > hi \/ m.crashed THEN m
    ELSE IF lo = hi THEN CStringFromRaw(m, elems[lo])
    ELSE DropStrings(DropStrings(m, elems, lo, (lo + hi) \div 2), elems, (lo + hi) \div 2 + 1, hi)

\* the first `size` elements of the array at ptr, as Vec::from_raw_parts sees it
Elements(m, ptr, size) == SubSeq(m.heap[ptr].data, 1, size)

\* the buffer of a rebuilt Vec is freed when its capacity is not 0
DropBuffer(m, ptr, cap) ==
    IF m.crashed \/ cap = 0 THEN m ELSE Dealloc(m, ptr, cap)

\* for url in Vec::from_raw_parts(urls, urls_size, urls_capacity) { .. }
DropUrls(m, ptr, size, cap) ==
    IF m.crashed THEN m
    ELSE IF ptr = Null THEN Undefined(m, TRUE)
    ELSE IF ptr = Dangling THEN m
    ELSE DropBuffer(DropStrings(m, Elements(m, ptr, size), 1, size), ptr, cap)

\* impl Drop for RawRTCIceServer: credential, username, then the urls
DropIceServer(m, r) ==
    DropUrls(CStringFromRaw(CStringFromRaw(m, r.credential), r.username),
             r.urls, r.urls_size, r.urls_capacity)

RECURSIVE DropEach(_, _, _, _)
\* the elements elems[lo..hi] of a Vec<RawRTCIceServer> are dropped in order
\* (the range is halved to keep the evaluation shallow)
DropEach(m, elems, lo, hi) ==
    IF lo > hi \/ m.crashed THEN m
    ELSE IF lo = hi THEN DropIceServer(m, elems[lo])
    ELSE DropEach(DropEach(m, elems, lo, (lo + hi) \div 2), elems, (lo + hi) \div 2 + 1, hi)

\* `let _ = Vec::from_raw_parts(ice_servers, ice_servers_size, ice_servers_capacity)`
DropServers(m, ptr, size, cap) ==
    IF m.crashed THEN m
    ELSE IF ptr = Null THEN Undefined(m, TRUE)
    ELSE IF ptr = Dangling THEN m
    ELSE DropBuffer(DropEach(m, Elements(m, ptr, size), 1, size), ptr, cap)

\* impl Drop for RawRTCPeerConnectionConfigure: peer_identity, then ice_servers
DropConfigure(m, r) ==
    DropServers(CStringFromRaw(m, r.peer_identity),
                r.ice_servers, r.ice_servers_size, r.ice_servers_capacity)

\* drop of the Box<RawRTCPeerConnectionConfigure> that from_raw returned: the
\* destructor of the value the pointer refers to, then the Box's own block.
\* The drop of a second Box of the same pointer reads the freed block as the
\* first drop left it and frees every block again (Dealloc counts each).
DropBox(m, p) == DropBuffer(DropConfigure(m, m.heap[p].data), p, 1)

(***************************************************************************)
(* Encoding a configuration.                                               *)
(***************************************************************************)
NoConfigure == [bundle_policy |-> 0, ice_transport_policy |-> 0, peer_identity |-> Null,
                rtcp_mux_policy |-> 0, ice_servers |-> Null, ice_servers_size |-> 0,
                ice_servers_capacity |-> 0, ice_candidate_pool_size |-> 0]

\* one more encoded server is put into the Vec being collected, unless its
\* encoding panicked
PushServer(acc, r) ==
    [heap |-> r.heap, ok |-> r.ok, vals |-> IF r.ok THEN Append(acc.vals, r.val) ELSE acc.vals]

RECURSIVE CollectServers(_, _, _, _)
\* i.iter().map(|s| s.clone().into()) over l[lo..hi]: the servers are encoded
\* one after the other; the first panic stops the iteration (the range is
\* halved to keep the evaluation shallow)
CollectServers(acc, l, lo, hi) ==
    IF lo > hi \/ ~acc.ok THEN acc
    ELSE IF lo = hi THEN PushServer(acc, IceServerInto(acc.heap, l[lo]))
    ELSE CollectServers(CollectServers(acc, l, lo, (lo + hi) \div 2), l, (lo + hi) \div 2 + 1, hi)

\* ice_servers.map(|i| ...collect::<Vec<RawRTCIceServer>>().into_raw_parts())
\*            .unwrap_or(null, 0, 0)
\* collect allocates the array, then fills it.  A panic unwinds through the
\* half-built Vec<RawRTCIceServer>: the servers already in it are dropped
\* (impl Drop for RawRTCIceServer) and the array is freed.
\* the heap once the array at a holds the servers collected so far
Filled(m, a, r) == [m EXCEPT !.heap = [r.heap EXCEPT ![a].data = r.vals]]

\* r: what collecting n servers into the array at a came to
CollectedParts(m, a, n, r) ==
    IF r.ok THEN [mem |-> Filled(m, a, r), ok |-> TRUE, parts |-> <<a, n, VecCapacity(n)>>]
    ELSE [mem |-> DropBuffer(DropEach(Filled(m, a, r), r.vals, 1, Len(r.vals)), a, VecCapacity(n)),
          ok |-> FALSE, parts |-> NoneParts]

ServersIntoRawParts(m, servers) ==
    IF servers = None THEN [mem |-> m, ok |-> TRUE, parts |-> NoneParts]
    ELSE IF Len(servers[1]) = 0 THEN [mem |-> m, ok |-> TRUE, parts |-> <<Dangling, 0, 0>>]
    ELSE CollectedParts(m, Len(m.heap) + 1, Len(servers[1]),
                        CollectServers([heap |-> Append(m.heap, VecBlock("Vec<RawRTCIceServer>", <<>>,
                                                                        VecCapacity(Len(servers[1])), 0)),
                                        ok |-> TRUE, vals |-> <<>>],
                                       servers[1], 1, Len(servers[1])))

\* impl Into<RawRTCPeerConnectionConfigure> for RTCConfiguration: ice_servers
\* first, then the struct literal; of its fields only peer_identity can panic
\* s, p: the outcomes of encoding ice_servers and peer_identity
ConfigureLiteral(s, p, c) ==
    IF ~p.ok THEN [mem |-> s.mem, ok |-> FALSE, val |-> NoConfigure]
    ELSE [mem |-> [s.mem EXCEPT !.heap = p.heap], ok |-> TRUE,
          val |-> [bundle_policy |-> EnumAsU8(BundelPolicy, c.bundle_policy),
                   ice_transport_policy |-> EnumAsU8(IceTransportPolicy, c.ice_transport_policy),
                   peer_identity |-> p.ptr,
                   rtcp_mux_policy |-> EnumAsU8(RtcpMuxPolicy, c.rtcp_mux_policy),
                   ice_candidate_pool_size |-> PoolSizeByte(c.ice_candidate_pool_size),
                   ice_servers_capacity |-> AsU8(s.parts[3]),
                   ice_servers_size |-> AsU8(s.parts[2]),
                   ice_servers |-> s.parts[1]]]

ConfigureAfterServers(s, c) ==
    IF ~s.ok THEN [mem |-> s.mem, ok |-> FALSE, val |-> NoConfigure]
    ELSE ConfigureLiteral(s, StringIntoRaw(s.mem.heap, c.peer_identity), c)

ConfigurationInto(m, c) == ConfigureAfterServers(ServersIntoRawParts(m, c.ice_servers), c)

\* decode of an enum byte: 0 is None, the ordinals 1..n are the variants in
\* declaration order, any other byte is an invalid enum state
DecodeEnum(decl, b) ==
    IF b = 0 THEN [ok |-> TRUE, val |-> None]
    ELSE IF b \in 1..Len(decl) THEN [ok |-> TRUE, val |-> Some(decl[b])]
    ELSE [ok |-> FALSE, val |-> None]

(***************************************************************************)
(* Inputs.                                                                 *)
(***************************************************************************)
SeqsUpTo(S, n) == UNION {[1..k -> S] : k \in 0..n}

OptionOf(S) == {None} \cup {Some(x) : x \in S}

Range(f) == {f[i] : i \in DOMAIN f}

Repeat(x, n) == [i \in 1..n |-> x]

\* every RTCIceServer over the sample strings with at most MaxUrls urls
Servers == [credential : OptStrings, username : OptStrings,
            urls : OptionOf(SeqsUpTo(StrSamples, MaxUrls))]

NoneServer == [credential |-> None, username |-> None, urls |-> None]

FullServer == [credential |-> Some(Ok), username |-> Some(Ok), urls |-> Some(<<Ok>>)]

StunServer == [credential |-> None, username |-> None, urls |-> Some(<<Ok>>)]

ServerSamples == {NoneServer, FullServer, StunServer,
                  [credential |-> Some(Ok), username |-> Some(Bad), urls |-> None],
                  [credential |-> None, username |-> None, urls |-> Some(<<>>)],
                  [credential |-> Some(Ok), username |-> None, urls |-> Some(<<Ok, Bad>>)]}

\* list lengths around the range of the u8 count fields
LongLens == {3, U8 - 1, U8, U8 + 1}

NoScalars == [bundle_policy |-> None, ice_transport_policy |-> None, rtcp_mux_policy |-> None,
              ice_candidate_pool_size |-> None]

Config(scalars, peer, servers) ==
    [bundle_policy |-> scalars.bundle_policy,
     ice_transport_policy |-> scalars.ice_transport_policy,
     peer_identity |-> peer,
     rtcp_mux_policy |-> scalars.rtcp_mux_policy,
     ice_servers |-> servers,
     ice_candidate_pool_size |-> scalars.ice_candidate_pool_size]

\* every combination of the three enums with some pool sizes, and every pool size
ScalarConfigs ==
    {Config(s, None, None) :
        s \in [bundle_policy : OptionOf(Range(BundelPolicy)),
               ice_transport_policy : OptionOf(Range(IceTransportPolicy)),
               rtcp_mux_policy : OptionOf(Range(RtcpMuxPolicy)),
               ice_candidate_pool_size : {None, Some(0), Some(1), Some(U8 - 1)}]}
    \cup {Config([NoScalars EXCEPT !.ice_candidate_pool_size = Some(n)], None, None) : n \in 0..(U8 - 1)}

\* the owned fields: every peer_identity with every list of sample servers
MemConfigs ==
    {Config([NoScalars EXCEPT !.bundle_policy = b], p, l) :
        b \in {None, Some("MaxBundle")}, p \in OptStrings,
        l \in OptionOf(SeqsUpTo(ServerSamples, MaxServers))}

\* long lists: n equal servers, and one server with n urls
LongConfigs ==
    {Config(NoScalars, None, Some(Repeat(s, n))) : s \in {NoneServer, FullServer}, n \in LongLens}
    \cup {Config(NoScalars, Some(Ok), Some(<<[FullServer EXCEPT !.urls = Some(Repeat(Ok, n))]>>)) : n \in LongLens}

Configs == ScalarConfigs \cup MemConfigs \cup LongConfigs

\* what the run is given: a configuration to encode, a stand-alone ICE server
\* to encode, or a byte to decode (the fields the kind does not use are fixed)
Input(kind, c, s, b) == [kind |-> kind, config |-> c, server |-> s, byte |-> b]

Inputs == {Input("config", c, NoneServer, 0) : c \in Configs}
          \cup {Input("server", Config(NoScalars, None, None), s, 0) : s \in Servers}
          \cup {Input("byte", Config(NoScalars, None, None), NoneServer, b) : b \in 0..(U8 - 1)}

(***************************************************************************)
(* The state machine.                                                      *)
(***************************************************************************)
Init ==
    /\ input \in Inputs
    /\ pc = "start"
    /\ raw = NoConfigure
    /\ mem = NewMem(<<>>)
    /\ handle = Null
    /\ boxes = 0
    /\ fromRaws = 0
    /\ borrowed = FALSE
    /\ decoded = <<>>

\* where the program is after a step that ran destructors
After(m, next) == IF m.crashed THEN "crashed" ELSE next

\* RTCIceServer::into(): a RawRTCIceServer value, or a panic
IntoRawRTCIceServer ==
    /\ pc = "start"
    /\ input.kind = "server"
    /\ LET r == IceServerInto(mem.heap, input.server)
       IN /\ mem' = [mem EXCEPT !.heap = r.heap]
          /\ raw' = r.val
          /\ pc' = IF r.ok THEN "server" ELSE "panicked"
    /\ UNCHANGED <<input, handle, boxes, fromRaws, borrowed, decoded>>

\* the RawRTCIceServer value goes out of scope
DropRawRTCIceServer ==
    /\ pc = "server"
    /\ \E k \in 0..MaxFault :
          LET m == DropIceServer(WithFault(mem, k), raw)
          IN /\ mem' = Settled(m)
             /\ pc' = After(m, "dropped")
    /\ UNCHANGED <<input, raw, handle, boxes, fromRaws, borrowed, decoded>>

\* RTCConfiguration::into(): a RawRTCPeerConnectionConfigure value, or a panic
IntoRawRTCPeerConnectionConfigure ==
    /\ pc = "start"
    /\ input.kind = "config"
    /\ \E k \in 0..MaxFault :
          LET r == ConfigurationInto(WithFault(mem, k), input.config)
          IN /\ mem' = Settled(r.mem)
             /\ raw' = r.val
             /\ pc' = After(r.mem, IF r.ok THEN "encoded" ELSE "panicked")
    /\ UNCHANGED <<input, handle, boxes, fromRaws, borrowed, decoded>>

\* the RawRTCPeerConnectionConfigure value goes out of scope without into_raw
DropRawRTCPeerConnectionConfigure ==
    /\ pc = "encoded"
    /\ \E k \in 0..MaxFault :
          LET m == DropConfigure(WithFault(mem, k), raw)
          IN /\ mem' = Settled(m)
             /\ pc' = After(m, "dropped")
    /\ UNCHANGED <<input, raw, handle, boxes, fromRaws, borrowed, decoded>>

\* into_raw: Box::into_raw(Box::new(self))
into_raw ==
    /\ pc = "encoded"
    /\ mem' = [mem EXCEPT !.heap = Append(@, [kind |-> "Box", data |-> raw, cap |-> 1, frees |-> 0])]
    /\ handle' = Len(mem.heap) + 1
    /\ pc' = "handed"
    /\ UNCHANGED <<input, raw, boxes, fromRaws, borrowed, decoded>>

\* from_raw: Box::from_raw(raw).  A safe function of a pointer the caller can
\* copy: nothing in it tells a second call from the first.
from_raw ==
    /\ pc = "handed"
    /\ fromRaws < MaxFromRaw
    /\ fromRaws' = fromRaws + 1
    /\ boxes' = boxes + 1
    /\ UNCHANGED <<input, pc, raw, mem, handle, borrowed, decoded>>

\* a Box returned by from_raw is dropped
DropBoxed ==
    /\ pc = "handed"
    /\ boxes > 0
    /\ boxes' = boxes - 1
    /\ \E k \in 0..MaxFault :
          LET m == DropBox(WithFault(mem, k), handle)
          IN /\ mem' = Settled(m)
             /\ pc' = After(m, "handed")
    /\ UNCHANGED <<input, raw, handle, fromRaws, borrowed, decoded>>

\* the foreign call that is given the handle starts reading the structure
ForeignEnter ==
    /\ pc = "handed"
    /\ ~borrowed
    /\ borrowed' = TRUE
    /\ UNCHANGED <<input, pc, raw, mem, handle, boxes, fromRaws, decoded>>

\* the foreign call returns
ForeignReturn ==
    /\ pc = "handed"
    /\ borrowed
    /\ borrowed' = FALSE
    /\ UNCHANGED <<input, pc, raw, mem, handle, boxes, fromRaws, decoded>>

\* a byte is decoded as each of the three enums
DecodeByte ==
    /\ pc = "start"
    /\ input.kind = "byte"
    /\ decoded' = <<DecodeEnum(BundelPolicy, input.byte),
                    DecodeEnum(IceTransportPolicy, input.byte),
                    DecodeEnum(RtcpMuxPolicy, input.byte)>>
    /\ pc' = "decoded"
    /\ UNCHANGED <<input, raw, mem, handle, boxes, fromRaws, borrowed>>

Next ==
    \/ IntoRawRTCIceServer
    \/ DropRawRTCIceServer
    \/ IntoRawRTCPeerConnectionConfigure
    \/ DropRawRTCPeerConnectionConfigure
    \/ into_raw
    \/ from_raw
    \/ DropBoxed
    \/ ForeignEnter
    \/ ForeignReturn
    \/ DecodeByte

Spec == Init /\ [][Next]_vars

(***************************************************************************)
(* What the properties speak of.                                           *)
(***************************************************************************)
EncodedConfig == input.kind = "config" /\ pc = "encoded"

EncodedServer == input.kind = "server" /\ pc = "server"

Blocks == 1..Len(mem.heap)

\* the value-form servers of the configuration, and their raw forms in the array
CfgServers == IF input.config.ice_servers = None THEN <<>> ELSE input.config.ice_servers[1]

RawServers == IF raw.ice_servers > 0 THEN mem.heap[raw.ice_servers].data ELSE <<>>

UrlArray(r) == IF r.urls > 0 THEN mem.heap[r.urls].data ELSE <<>>

\* each value-form server the state holds with its raw form
ServerPairs ==
    IF EncodedConfig THEN {<<CfgServers[i], RawServers[i]>> : i \in 1..Len(CfgServers)}
    ELSE IF EncodedServer THEN {<<input.server, raw>>}
    ELSE {}

InRange(list) == list = None \/ Len(list[1]) < U8

AllInRange(c) == InRange(c.ice_servers)
                 /\ (c.ice_servers # None => \A i \in 1..Len(c.ice_servers[1]) : InRange(c.ice_servers[1][i].urls))

NulFree(o) == o = None \/ ~HasNul(o[1])

ServerNulFree(s) == NulFree(s.credential) /\ NulFree(s.username)
                    /\ (s.urls # None => \A j \in 1..Len(s.urls[1]) : ~HasNul(s.urls[1][j]))

ConfigNulFree(c) == NulFree(c.peer_identity)
                    /\ (c.ice_servers # None => \A i \in 1..Len(c.ice_servers[1]) : ServerNulFree(c.ice_servers[1][i]))

AllNoneConfig == Config(NoScalars, None, None)

\* one from_raw of the handle, and the Box it returned dropped
ReleasedOnce == input.kind = "config" /\ handle # Null /\ fromRaws = 1 /\ boxes = 0

(***************************************************************************)
(* C1: for every configuration without NUL bytes and with lists of at most *)
(* 255 elements, encode, into_raw, from_raw and the drop of the Box free   *)
(* every block encode allocated exactly once: none is left live, none is   *)
(* freed twice.                                                            *)
(***************************************************************************)
C1_RoundTripFreesAllOnce ==
    (ReleasedOnce /\ ConfigNulFree(input.config) /\ AllInRange(input.config))
        => (~mem.crashed /\ \A a \in Blocks : mem.heap[a].frees = 1)

(***************************************************************************)
(* C2: releasing the raw form of a configuration or ICE server whose       *)
(* optional fields are all None rebuilds nothing from a null pointer and   *)
(* does not fault.                                                         *)
(***************************************************************************)
C2_NoneReleaseTouchesNoNull ==
    ((input.kind = "config" /\ input.config = AllNoneConfig)
     \/ (input.kind = "server" /\ input.server = NoneServer))
        => (mem.nulls = 0 /\ ~mem.crashed)

(***************************************************************************)
(* C3: encoding an ICE server with a valid credential and a username that  *)
(* holds a NUL byte fails, and whenever an encode has failed no block it   *)
(* allocated is still live.                                                *)
(***************************************************************************)
C3_FailedEncodeLeavesNothing ==
    /\ (input.kind = "server" /\ input.server.credential = Some(Ok)
        /\ input.server.username = Some(Bad) /\ pc # "start") => pc = "panicked"
    /\ pc = "panicked" => \A a \in Blocks : mem.heap[a].frees >= 1

(***************************************************************************)
(* C4: a list of more than 255 elements is refused by encode; the length   *)
(* and capacity bytes of every raw form encode produces are the real       *)
(* element count of the array.                                             *)
(***************************************************************************)
C4_CountsAreRealCounts ==
    /\ EncodedConfig => /\ Len(CfgServers) < U8
                        /\ raw.ice_servers_size = Len(RawServers)
                        /\ raw.ice_servers_capacity = Len(RawServers)
    /\ \A sp \in ServerPairs : /\ sp[1].urls # None => Len(sp[1].urls[1]) < U8
                               /\ sp[2].urls_size = Len(UrlArray(sp[2]))
                               /\ sp[2].urls_capacity = Len(UrlArray(sp[2]))

(***************************************************************************)
(* C5: a handle is released at most once, and never while the foreign call *)
(* that borrowed it has not returned.                                      *)
(***************************************************************************)
C5_HandleReleasedOnceNotBorrowed ==
    handle # Null => /\ mem.heap[handle].frees <= 1
                     /\ borrowed => mem.heap[handle].frees = 0

\* the pointer slots of the raw form: <<0, 0>> peer_identity, <<0, 1>> ice_servers,
\* <<i, 1..3>> credential, username, urls of server i, <<i, 3 + j>> its j-th url
Slots ==
    IF EncodedConfig
    THEN {<<0, 0>>, <<0, 1>>}
         \cup {<<i, f>> : i \in 1..Len(RawServers), f \in 1..3}
         \cup UNION {{<<i, 3 + j>> : j \in 1..Len(UrlArray(RawServers[i]))} : i \in 1..Len(RawServers)}
    ELSE IF EncodedServer
    THEN {<<1, f>> : f \in 1..3} \cup {<<1, 3 + j>> : j \in 1..Len(UrlArray(raw))}
    ELSE {}

ServerTarget(r, f) ==
    IF f = 1 THEN r.credential
    ELSE IF f = 2 THEN r.username
    ELSE IF f = 3 THEN r.urls
    ELSE UrlArray(r)[f - 3]

Target(s) ==
    IF s = <<0, 0>> THEN raw.peer_identity
    ELSE IF s = <<0, 1>> THEN raw.ice_servers
    ELSE IF EncodedConfig THEN ServerTarget(RawServers[s[1]], s[2])
    ELSE ServerTarget(raw, s[2])

OwningSlots == {s \in Slots : Target(s) > 0}

ListShape(list, ptr, size, cap, elems) ==
    /\ size = cap
    /\ (list # None /\ Len(list[1]) < U8) => (size = Len(list[1]) /\ Len(elems) = Len(list[1]))

(***************************************************************************)
(* C6: in every raw form, recorded length equals recorded capacity; for a  *)
(* list of at most 255 elements both equal the number of elements and the  *)
(* array holds that many; when all lists are that short, every block is    *)
(* live and owned by exactly one pointer of the raw form.                  *)
(***************************************************************************)
C6_LengthIsCapacityIsCount ==
    /\ EncodedConfig => ListShape(input.config.ice_servers, raw.ice_servers, raw.ice_servers_size,
                                  raw.ice_servers_capacity, RawServers)
    /\ \A sp \in ServerPairs :
          ListShape(sp[1].urls, sp[2].urls, sp[2].urls_size, sp[2].urls_capacity, UrlArray(sp[2]))
    /\ ((EncodedConfig /\ AllInRange(input.config)) \/ EncodedServer)
          => /\ {Target(s) : s \in OwningSlots} = Blocks
             /\ Cardinality(OwningSlots) = Len(mem.heap)
             /\ \A a \in Blocks : mem.heap[a].frees = 0 /\ mem.heap[a].cap = Len(mem.heap[a].data)

C6_Witness ==
    /\ EncodedConfig
    /\ Len(CfgServers) = 3
    /\ raw.ice_servers_size = 3
    /\ raw.ice_servers_capacity = 3
    /\ \A i \in 1..3 : RawServers[i].urls_size = 1 /\ RawServers[i].credential > 0

ListTriple(list, ptr, size, cap) ==
    /\ list = None => <<ptr, size, cap>> = <<Null, 0, 0>>
    /\ list = Some(<<>>) => <<ptr, size, cap>> = <<Dangling, 0, 0>>
    /\ ptr = Null <=> list = None
    /\ ptr = Null => (size = 0 /\ cap = 0)

(***************************************************************************)
(* C7 (as amended): an absent list encodes to (null, 0, 0); a present but  *)
(* empty list encodes to (the dangling non-null pointer of a Vec that      *)
(* never allocated, 0, 0); the list pointer is null exactly when the list  *)
(* is absent, and a null list pointer comes with both counts 0.            *)
(***************************************************************************)
C7_AbsentIsNullEmptyIsDangling ==
    /\ EncodedConfig => ListTriple(input.config.ice_servers, raw.ice_servers,
                                   raw.ice_servers_size, raw.ice_servers_capacity)
    /\ \A sp \in ServerPairs : ListTriple(sp[1].urls, sp[2].urls, sp[2].urls_size, sp[2].urls_capacity)

C7_Witness ==
    /\ EncodedConfig
    /\ input.config.ice_servers = Some(<<>>)
    /\ raw.ice_servers = Dangling
    /\ raw.ice_servers_size = 0
    /\ mem.heap = <<>>

\* C7 as stated: an absent list and a present but empty list both encode to
\* (null, 0, 0)
C7_EmptyIsNull ==
    /\ (EncodedConfig /\ Len(CfgServers) = 0)
          => <<raw.ice_servers, raw.ice_servers_size, raw.ice_servers_capacity>> = <<Null, 0, 0>>
    /\ \A sp \in ServerPairs :
          (sp[1].urls = None \/ sp[1].urls = Some(<<>>))
              => <<sp[2].urls, sp[2].urls_size, sp[2].urls_capacity>> = <<Null, 0, 0>>

BundleByte(o) ==
    IF o = None THEN 0
    ELSE IF o = Some("Balanced") THEN 1
    ELSE IF o = Some("MaxCompat") THEN 2
    ELSE 3

TransportByte(o) ==
    IF o = None THEN 0
    ELSE IF o = Some("None") THEN 1
    ELSE IF o = Some("Relay") THEN 2
    ELSE IF o = Some("Public") THEN 3
    ELSE 4

MuxByte(o) ==
    IF o = None THEN 0
    ELSE IF o = Some("Negotiate") THEN 1
    ELSE 2

(***************************************************************************)
(* C8: each enum field of the raw form is 0 for None and otherwise the     *)
(* ordinal of the variant, counted from 1 in declaration order (MaxBundle  *)
(* is 3); it depends on the matching field of the value form alone.        *)
(***************************************************************************)
C8_EnumBytesAreOrdinals ==
    EncodedConfig =>
        /\ raw.bundle_policy = BundleByte(input.config.bundle_policy)
        /\ raw.ice_transport_policy = TransportByte(input.config.ice_transport_policy)
        /\ raw.rtcp_mux_policy = MuxByte(input.config.rtcp_mux_policy)
        /\ raw.bundle_policy \in 0..3
        /\ raw.ice_transport_policy \in 0..4
        /\ raw.rtcp_mux_policy \in 0..2

C8_Witness ==
    /\ EncodedConfig
    /\ input.config.bundle_policy = Some("MaxBundle")
    /\ input.config.ice_transport_policy = Some("All")
    /\ raw.bundle_policy = 3
    /\ raw.ice_transport_policy = 4

(***************************************************************************)
(* C9: decoding the byte encode made gives back the Option it was made     *)
(* from, for every variant and for None; decoding 0 gives None; decoding a *)
(* byte that is neither 0 nor an ordinal is an error.                      *)
(***************************************************************************)
C9_EnumRoundTrip ==
    /\ EncodedConfig =>
          /\ DecodeEnum(BundelPolicy, raw.bundle_policy) = [ok |-> TRUE, val |-> input.config.bundle_policy]
          /\ DecodeEnum(IceTransportPolicy, raw.ice_transport_policy)
                = [ok |-> TRUE, val |-> input.config.ice_transport_policy]
          /\ DecodeEnum(RtcpMuxPolicy, raw.rtcp_mux_policy) = [ok |-> TRUE, val |-> input.config.rtcp_mux_policy]
    /\ pc = "decoded" =>
          /\ decoded[1].ok <=> input.byte \in 0..3
          /\ decoded[2].ok <=> input.byte \in 0..4
          /\ decoded[3].ok <=> input.byte \in 0..2
          /\ \A e \in 1..3 : /\ input.byte = 0 => decoded[e] = [ok |-> TRUE, val |-> None]
                             /\ ~decoded[e].ok => decoded[e].val = None
                             /\ (decoded[e].ok /\ input.byte # 0) => decoded[e].val # None

C9_Witness ==
    /\ EncodedConfig
    /\ input.config.rtcp_mux_policy = Some("Require")
    /\ input.config.bundle_policy = None
    /\ DecodeEnum(RtcpMuxPolicy, raw.rtcp_mux_policy).val = Some("Require")
    /\ DecodeEnum(BundelPolicy, raw.bundle_policy).val = None

(***************************************************************************)
(* C10: the pool size byte is n for Some(n) and 0 for None, so None and    *)
(* Some(0) give the same byte and different n give different bytes.        *)
(***************************************************************************)
C10_PoolSizeCopied ==
    EncodedConfig =>
        /\ input.config.ice_candidate_pool_size = None => raw.ice_candidate_pool_size = 0
        /\ \A n \in 0..(U8 - 1) :
              input.config.ice_candidate_pool_size = Some(n) => raw.ice_candidate_pool_size = n
        /\ raw.ice_candidate_pool_size = 0
              <=> input.config.ice_candidate_pool_size \in {None, Some(0)}

C10_Witness ==
    /\ EncodedConfig
    /\ input.config.ice_candidate_pool_size = Some(0)
    /\ raw.ice_candidate_pool_size = 0

====
